---- MODULE Spec2Model ----
(***************************************************************************)
(* Model of the upload command of immich-go (cmdupload/upload.go):         *)
(* UploadCommand runs UpCmd.Run once per source file system; Run feeds a   *)
(* pool of workers with the descriptors of the enumerator, each worker     *)
(* runs handleAsset (guards, ShouldUpload, UploadAsset, accumulation into  *)
(* the stack builder, updateAlbums and the two deletion lists), and Run    *)
(* then flushes stacks, albums and deletions.                              *)
(*                                                                         *)
(* Time is counted in minutes.  Identifiers, names and sizes are drawn     *)
(* from small sets.  The remote catalog (iClient) is the environment: each *)
(* call returns one of the results the interface allows.                   *)
(***************************************************************************)
EXTENDS FiniteSets, Integers, Sequences, TLC

\* ---------------------------------------------------------------- bounds
\* descriptors the enumerators yield, over all the runs of one command
MaxFiles == 2
\* goroutines of one xsync.Worker pool (UpCmd.NumWorkers)
NumWorkers == 2
\* source file systems given to the command (len(app.fsys))
NumFsys == 2

\* 5*time.Minute, in minutes
FiveMinutes == 5

Workers == 1..NumWorkers
Runs == 1..NumFsys
Slots == Runs \X Workers

\* ------------------------------------------------------------ advice codes
IDontKnow == "IDontKnow"
SmallerOnServer == "SmallerOnServer"
BetterOnServer == "BetterOnServer"
SameOnServer == "SameOnServer"
NotOnServer == "NotOnServer"

\* ------------------------------------------------------------- input sets
\* browser.LocalAlbum
LocalAlbum(p, n) == [Path |-> p, Name |-> n]

\* The assets the server lists at start (GetAllAssetsWithFilter, not trashed).
\* r1 belongs to the album "X"; its device identifier is the one this program
\* derives from name, size and capture time.
ServerAssets ==
  << [ID |-> "r1", DeviceAssetID |-> << "a.jpg", 2, 5 >>, Name |-> "a.jpg",
      Size |-> 2, Date |-> 5, Albums |-> {"X"}, JustUploaded |-> FALSE] >>

\* browser.LocalAssetFile, as the enumerators produce them.  Name is the base
\* name with its extension (Title), Dir the parent folder, Mime tells whether
\* fshelper.MimeFromExt knows the extension, Err the metadata error.
LocalFile(n, d, s, t, al, e, m) ==
  [Name |-> n, Dir |-> d, Size |-> s, Date |-> t, Albums |-> al,
   FromPartner |-> FALSE, Trashed |-> FALSE, Err |-> e, Mime |-> m]

LocalFiles ==
  { LocalFile("a.jpg", "d", 3, 5, {LocalAlbum("d", "Y")}, FALSE, TRUE),
    LocalFile("a.jpg", "e", 2, 5, {LocalAlbum("e", "Y")}, FALSE, TRUE),
    LocalFile("a.raw", "d", 3, 5, {}, FALSE, TRUE),
    LocalFile("b.jpg", "d", 1, 0, {}, TRUE, TRUE),
    LocalFile("c.txt", "d", 1, 0, {}, FALSE, FALSE) }

NoFile == LocalFile("", "", 0, 0, {}, FALSE, FALSE)

\* The album lists GetAllAlbums may return (album names; Immich identifies
\* albums by ID, so two albums may bear the same name).
ServerAlbumLists == { << >>, << "X" >>, << "X", "X" >> }

\* The flag values of UpCmd the command line may set (NewUpCmd), with the
\* Delete field, which the flag set leaves to the embedding program.
Configs ==
  [ GooglePhotos : BOOLEAN,
    Delete : BOOLEAN,
    DryRun : BOOLEAN,
    ImportIntoAlbum : {"", "imp"},
    CreateAlbumAfterFolder : {FALSE},
    CreateAlbums : {TRUE},
    CreateStacks : {TRUE},
    PartnerAlbum : {""},
    KeepPartner : {TRUE},
    KeepTrashed : {FALSE},
    KeepUntitled : {FALSE},
    UseFolderAsAlbumName : {FALSE},
    ImportFromAlbum : {""},
    DateRangeSet : {FALSE} ]

\* ------------------------------------------------------------------ state
VARIABLES
  app,              \* the flags of UpCmd (Delete is reset by ReadGoogleTakeOut)
  ctxDone,          \* the run context is cancelled
  run,              \* index in app.fsys of the current Run
  pc,               \* position of UploadCommand / Run
  assetChan,        \* the channel of explorer.Browse: "open" or "closed"
  sent,             \* descriptors enumerated so far
  pending,          \* the descriptor Run holds between receive and Enqueue
  wk,               \* the worker goroutines of every pool: Slots -> task
  AssetIndex,       \* app.AssetIndex.assets
  deleteServerList, \* app.deleteServerList
  deleteLocalList,  \* app.deleteLocalList (descriptor numbers)
  updateAlbums,     \* app.updateAlbums: album name -> set of asset IDs
  stacks,           \* the entries given to app.stacks
  mediaCount,       \* app.mediaCount
  mediaUploaded,    \* app.mediaUploaded
  err,              \* the err variable of the current Run
  todoStacks,       \* Run: stacks still to update in the stack loop
  todoAlbums,       \* ManageAlbums: album names still to visit
  serverAlbums,     \* ManageAlbums: the list GetAllAlbums returned
  rmIdx,            \* DeleteLocalAssets: position in deleteLocalList
  result,           \* what each Run returned: Runs -> "none","nil","err","ctx"
  cmdResult,        \* what UploadCommand returned
  flushLog,         \* remote and file operations the current Run started
  calls,            \* counters of the operations issued (history)
  hist              \* per descriptor: what its processing did (history)

vars == << app, ctxDone, run, pc, assetChan, sent, pending, wk, AssetIndex,
           deleteServerList, deleteLocalList, updateAlbums, stacks,
           mediaCount, mediaUploaded, err, todoStacks, todoAlbums,
           serverAlbums, rmIdx, result, cmdResult, flushLog, calls, hist >>

\* ---------------------------------------------------------- pure functions
AlbumNames == {"X", "Y", "imp", "d", "e"}

\* identifiers the server gives to the uploads (uuid.NewString in dry-run)
NewIDs == << "n1", "n2", "n3", "n4", "n5", "n6" >>

RangeOf(s) == { s[i] : i \in DOMAIN s }

\* compareDate: -1, 0 or +1 with a tolerance of five minutes
compareDate(d1, d2) ==
  LET diff == d1 - d2 IN
  IF diff < -FiveMinutes THEN -1
  ELSE IF diff >= FiveMinutes THEN 1
  ELSE 0

\* LocalAssetFile.DeviceAssetID: a key derived from name, size and capture time
DeviceAssetID(la) == << la.Name, la.Size, la.Date >>

\* AssetIndex.ByID: position of the asset with this device identifier, 0 if none
ByID(ai, ID) ==
  LET hits == { i \in DOMAIN ai : ai[i].DeviceAssetID = ID } IN
  IF hits = {} THEN 0 ELSE CHOOSE i \in hits : \A j \in hits : i <= j

\* AssetIndex.ByName: positions of the assets bearing this name, in list order
ByName(ai, n) == SelectSeq([ i \in DOMAIN ai |-> i ], LAMBDA i : ai[i].Name = n)

\* the switch of ShouldUpload for one candidate: its advice, "" when the
\* candidate is passed over
CandidateAdvice(la, sa) ==
  LET cd == compareDate(la.Date, sa.Date)
      cs == la.Size - sa.Size
  IN IF cd = 0 /\ cs = 0 THEN SameOnServer
     ELSE IF cd = 0 /\ cs > 0 THEN SmallerOnServer
     ELSE IF cd = 0 /\ cs < 0 THEN BetterOnServer
     ELSE ""

\* a scan that looks for the best match: a candidate of the same time and size
\* is preferred to an earlier one of another size
ScanCandidatesBest(ai, la, l, k) ==
  LET hits == { i \in k..Len(l) : CandidateAdvice(la, ai[l[i]]) # "" }
      same == { i \in hits : CandidateAdvice(la, ai[l[i]]) = SameOnServer }
      pick(S) == CHOOSE i \in S : \A j \in S : i <= j
  IN IF hits = {} THEN [Advice |-> NotOnServer, ServerAsset |-> 0]
     ELSE IF same # {} THEN [Advice |-> SameOnServer, ServerAsset |-> l[pick(same)]]
     ELSE [Advice |-> CandidateAdvice(la, ai[l[pick(hits)]]),
           ServerAsset |-> l[pick(hits)]]

\* the loop of ShouldUpload over the candidates l, from position k on
RECURSIVE ScanCandidates(_, _, _, _)
ScanCandidates(ai, la, l, k) ==
  IF k > Len(l) THEN [Advice |-> NotOnServer, ServerAsset |-> 0]
  ELSE LET adv == CandidateAdvice(la, ai[l[k]]) IN
       IF adv # "" THEN [Advice |-> adv, ServerAsset |-> l[k]]
       ELSE ScanCandidates(ai, la, l, k + 1)

\* AssetIndex.ShouldUpload: the advice and the position of the matched asset
ShouldUpload(ai, la) ==
  LET sa == ByID(ai, DeviceAssetID(la)) IN
  IF sa # 0 THEN [Advice |-> SameOnServer, ServerAsset |-> sa]
  ELSE ScanCandidates(ai, la, ByName(ai, la.Name), 1)

\* AssetIndex.AddLocalAsset: a new entry made from the local file, JustUploaded
AddLocalAsset(ai, la, id) ==
  Append(ai, [ID |-> id, DeviceAssetID |-> DeviceAssetID(la), Name |-> la.Name,
              Size |-> la.Size, Date |-> la.Date, Albums |-> {},
              JustUploaded |-> TRUE])

\* UpCmd.albumName
albumName(c, al) ==
  IF c.GooglePhotos /\ (c.UseFolderAsAlbumName \/ (c.KeepUntitled /\ al.Name = ""))
  THEN al.Path ELSE al.Name

\* UpCmd.isInAlbum
isInAlbum(c, a, album) == \E al \in a.Albums : albumName(c, al) = album

\* the guards of handleAsset: TRUE when the descriptor is skipped
Skipped(c, a) ==
  \/ ~a.Mime
  \/ ~c.KeepPartner /\ a.FromPartner
  \/ ~c.KeepTrashed /\ a.Trashed
  \/ c.ImportFromAlbum # "" /\ ~isInAlbum(c, a, c.ImportFromAlbum)
  \/ c.DateRangeSet

\* gen.Filter of handleAsset: untitled albums are dropped unless KeepUntitled
FilterAlbums(c, a) ==
  IF c.KeepUntitled THEN a.Albums ELSE { al \in a.Albums : al.Name # "" }

\* UploadAsset: the album names the uploaded asset is added to
UploadAlbumNames(c, a) ==
  IF c.ImportIntoAlbum # "" THEN {c.ImportIntoAlbum}
  ELSE IF c.GooglePhotos /\ (c.CreateAlbums \/ c.PartnerAlbum # "") THEN
    LET albums == a.Albums \cup
                  (IF c.PartnerAlbum # "" /\ a.FromPartner
                   THEN {LocalAlbum(c.PartnerAlbum, c.PartnerAlbum)} ELSE {})
    IN { albumName(c, al) : al \in albums } \ {""}
  ELSE IF ~c.GooglePhotos /\ c.CreateAlbumAfterFolder THEN
    IF a.Dir \notin {"", "."} THEN {a.Dir} ELSE {}
  ELSE {}

\* handleAsset, SameOnServer: the album names the server asset is added to
SameAlbumNames(c, a) ==
  (IF c.CreateAlbums THEN { albumName(c, al) : al \in a.Albums } ELSE {})
  \cup (IF c.ImportIntoAlbum # "" THEN {c.ImportIntoAlbum} ELSE {})
  \cup (IF c.PartnerAlbum # "" /\ a.FromPartner THEN {c.PartnerAlbum} ELSE {})

\* handleAsset, BetterOnServer: the album names the server asset is added to
BetterAlbumNames(c, a) ==
  (IF c.CreateAlbums THEN { albumName(c, al) : al \in a.Albums } ELSE {})
  \cup (IF c.PartnerAlbum # "" /\ a.FromPartner THEN {c.PartnerAlbum} ELSE {})

\* AddToAlbum that starts from a fresh set instead of the one of the map
AddToAlbumFresh(ua, ID, album) == [ua EXCEPT ![album] = {ID}]

\* UpCmd.AddToAlbum
AddToAlbum(ua, ID, album) == [ua EXCEPT ![album] = @ \cup {ID}]

\* the names of app.updateAlbums (the keys of the map)
AlbumKeys(ua) == { n \in AlbumNames : ua[n] # {} }

\* the condition of Run under which ManageAlbums is called
AlbumsManaged(c) ==
  \/ c.CreateAlbums
  \/ c.CreateAlbumAfterFolder
  \/ c.KeepPartner /\ c.PartnerAlbum # ""
  \/ c.ImportIntoAlbum # ""

\* the key under which the stack builder groups a file: its name without the
\* extension
StackKey(name) == IF name \in {"a.jpg", "a.raw"} THEN "a" ELSE name

\* StackBuilder.Stacks: the groups of two entries or more, the first one covers
Stacks(sb) ==
  LET keys == { StackKey(sb[i].Name) : i \in DOMAIN sb }
      members(k) == { i \in DOMAIN sb : StackKey(sb[i].Name) = k }
      first(k) == CHOOSE i \in members(k) : \A j \in members(k) : i <= j
  IN { [CoverID |-> sb[first(k)].ID, IDs |-> { sb[i].ID : i \in members(k) }] :
       k \in { kk \in keys : Cardinality(members(kk)) >= 2 } }

\* ------------------------------------------------------------------- Init
AssetIDs == { ServerAssets[i].ID : i \in DOMAIN ServerAssets } \cup RangeOf(NewIDs)
Descriptors == 1..MaxFiles

IdleTask ==
  [pc |-> "idle", n |-> 0, a |-> NoFile, adv |-> "", sa |-> 0, tmp |-> 0,
   rid |-> "", names |-> {}]

NoHist ==
  [run |-> 0, a |-> NoFile, state |-> "none", adv |-> "", sa |-> "", upl |-> "",
   rid |-> "", local |-> FALSE, server |-> "", adds |-> {}, stacked |-> FALSE,
   closed |-> 0]

NoAlbumCalls == [n \in AlbumNames |-> 0]

\* the fields of the UpCmd and the position of the command after NewUpCmd
Start ==
  /\ ctxDone = FALSE
  /\ run = 1
  /\ pc = "start"
  /\ assetChan = "open"
  /\ sent = 0
  /\ pending = << >>
  /\ wk = [s \in Slots |-> IdleTask]
  /\ AssetIndex = ServerAssets
  /\ deleteServerList = << >>
  /\ deleteLocalList = << >>
  /\ updateAlbums = [n \in AlbumNames |-> {}]
  /\ stacks = << >>
  /\ mediaCount = 0
  /\ mediaUploaded = 0
  /\ err = "nil"
  /\ todoStacks = {}
  /\ todoAlbums = {}
  /\ serverAlbums = << >>
  /\ rmIdx = 0
  /\ result = [r \in Runs |-> "none"]
  /\ cmdResult = "none"
  /\ flushLog = << >>
  /\ calls = [delReq |-> [id \in AssetIDs |-> 0],
              rmTry |-> [n \in Descriptors |-> 0],
              album |-> NoAlbumCalls, accum |-> {}, managed |-> "no",
              early |-> FALSE]
  /\ hist = [n \in Descriptors |-> NoHist]

Init ==
  /\ app \in Configs
  /\ Start

\* ------------------------------------------------- context and enumerator
cmdVars == << run, pc, pending, err, todoStacks, todoAlbums, serverAlbums, rmIdx,
             result, cmdResult, flushLog, calls >>
accVars == << AssetIndex, deleteServerList, deleteLocalList, updateAlbums, stacks,
             mediaCount, mediaUploaded >>

\* the caller cancels the context
Cancel ==
  /\ ~ctxDone
  /\ pc # "done"
  /\ ctxDone' = TRUE
  /\ calls' = [calls EXCEPT !.early = pc \in {"start", "loop", "enqueue"}]
  /\ UNCHANGED << app, assetChan, sent, wk, hist, run, pc, pending, err, todoStacks,
                  todoAlbums, serverAlbums, rmIdx, result, cmdResult, flushLog >>
  /\ UNCHANGED accVars

\* explorer.Browse: the enumerator closes the channel (exhaustion or
\* cancellation)
BrowseClose ==
  /\ pc \in {"loop", "enqueue"}
  /\ assetChan = "open"
  /\ assetChan' = "closed"
  /\ UNCHANGED << app, ctxDone, sent, wk, hist >>
  /\ UNCHANGED cmdVars
  /\ UNCHANGED accVars

\* -------------------------------------------------------------------- Run
\* the order of the statements of Run after the dispatcher loop: the phase
\* that follows phase p
NextPhaseDeleteFirst(p) ==
  CASE p = "wait" -> "delServer"
    [] p = "delServer" -> "delLocal"
    [] p = "delLocal" -> "stacks"
    [] p = "stacks" -> "albums"
    [] OTHER -> "return"

NextPhase(p) ==
  CASE p = "wait" -> "stacks"
    [] p = "stacks" -> "albums"
    [] p = "albums" -> "delServer"
    [] p = "delServer" -> "delLocal"
    [] OTHER -> "return"

Log(op) == flushLog' = Append(flushLog, op)

\* Run, up to explorer.Browse: ReadGoogleTakeOut resets Delete; the explorer
\* may fail, and Run then returns its error
RunStart ==
  /\ pc = "start"
  /\ app' = IF app.GooglePhotos THEN [app EXCEPT !.Delete = FALSE] ELSE app
  /\ \/ /\ pc' = "loop"
        /\ assetChan' = "open"
        /\ err' = "nil"
        /\ UNCHANGED result
     \/ /\ pc' = "ret"
        /\ result' = [result EXCEPT ![run] = "err"]
        /\ UNCHANGED << assetChan, err >>
  /\ UNCHANGED << ctxDone, run, sent, pending, wk, todoStacks, todoAlbums,
                  serverAlbums, rmIdx, cmdResult, flushLog, calls, hist >>
  /\ UNCHANGED accVars

\* the select of the dispatcher loop, case <-ctx.Done(): return ctx.Err()
RunCtxDone ==
  /\ pc = "loop"
  /\ ctxDone
  /\ result' = [result EXCEPT ![run] = "ctx"]
  /\ pc' = "ret"
  /\ UNCHANGED << app, ctxDone, run, assetChan, sent, pending, wk, err, todoStacks,
                  todoAlbums, serverAlbums, rmIdx, cmdResult, flushLog, calls, hist >>
  /\ UNCHANGED accVars

\* the select of the dispatcher loop, case a, ok := <-assetChan with ok: the
\* enumerator sends the next descriptor on the unbuffered channel
RunReceive ==
  /\ pc = "loop"
  /\ assetChan = "open"
  /\ sent < MaxFiles
  /\ \E f \in LocalFiles :
       /\ pending' = << [n |-> sent + 1, a |-> f] >>
       /\ hist' = [hist EXCEPT ![sent + 1] =
                     [NoHist EXCEPT !.run = run, !.a = f, !.state = "sent"]]
  /\ sent' = sent + 1
  /\ pc' = "enqueue"
  /\ UNCHANGED << app, ctxDone, run, assetChan, wk, err, todoStacks, todoAlbums,
                  serverAlbums, rmIdx, result, cmdResult, flushLog, calls >>
  /\ UNCHANGED accVars

\* the same without the wait for the workers: the flush starts at once
RunChanClosedNoWait ==
  /\ pc = "loop"
  /\ assetChan = "closed"
  /\ pc' = NextPhase("wait")
  /\ todoStacks' = IF app.CreateStacks THEN Stacks(stacks) ELSE {}
  /\ UNCHANGED << app, ctxDone, run, assetChan, sent, pending, wk, err,
                  todoAlbums, serverAlbums, rmIdx, result, cmdResult, flushLog,
                  calls, hist >>
  /\ UNCHANGED accVars

\* the same with continue in the place of break: the loop reads the closed
\* channel again
RunChanClosedContinue ==
  /\ pc = "loop"
  /\ assetChan = "closed"
  /\ UNCHANGED vars

\* the select of the dispatcher loop, case !ok: break, then worker.Finish()
\* and worker.Wait() is next
RunChanClosed ==
  /\ pc = "loop"
  /\ assetChan = "closed"
  /\ pc' = "wait"
  /\ UNCHANGED << app, ctxDone, run, assetChan, sent, pending, wk, err, todoStacks,
                  todoAlbums, serverAlbums, rmIdx, result, cmdResult, flushLog,
                  calls, hist >>
  /\ UNCHANGED accVars

\* the goroutines of the pool of the current Run that run no task
Idle == { w \in Workers : wk[<< run, w >>].pc = "idle" }

\* worker.Enqueue(a): the descriptor is handed to a free goroutine of the pool
\* (the goroutines are interchangeable: the first free one takes it)
RunEnqueue ==
  /\ pc = "enqueue"
  /\ Idle # {}
  /\ LET w == CHOOSE v \in Idle : \A u \in Idle : v <= u IN
       wk' = [wk EXCEPT ![<< run, w >>] =
                [IdleTask EXCEPT !.pc = "start", !.n = pending[1].n,
                                 !.a = pending[1].a]]
  /\ hist' = [hist EXCEPT ![pending[1].n].state = "queued"]
  /\ pending' = << >>
  /\ pc' = "loop"
  /\ UNCHANGED << app, ctxDone, run, assetChan, sent, err, todoStacks, todoAlbums,
                  serverAlbums, rmIdx, result, cmdResult, flushLog, calls >>
  /\ UNCHANGED accVars

\* worker.Wait() returns when no goroutine of the pool runs a task
WaitReturns == \A w \in Workers : wk[<< run, w >>].pc = "idle"

\* worker.Wait(), then the head of the stack phase: app.stacks.Stacks()
RunWait ==
  /\ pc = "wait"
  /\ WaitReturns
  /\ pc' = NextPhase("wait")
  /\ todoStacks' = IF app.CreateStacks THEN Stacks(stacks) ELSE {}
  /\ UNCHANGED << app, ctxDone, run, assetChan, sent, pending, wk, err, todoAlbums,
                  serverAlbums, rmIdx, result, cmdResult, flushLog, calls, hist >>
  /\ UNCHANGED accVars

\* one turn of the stack loop: client.UpdateAssets unless dry-run
RunStack ==
  /\ pc = "stacks"
  /\ todoStacks # {}
  /\ \E st \in todoStacks : todoStacks' = todoStacks \ {st}
  /\ IF app.DryRun
     THEN UNCHANGED << err, flushLog >>
     ELSE /\ Log("UpdateAssets")
          /\ err' \in {"nil", "err"}
  /\ UNCHANGED << app, ctxDone, run, pc, assetChan, sent, pending, wk, todoAlbums,
                  serverAlbums, rmIdx, result, cmdResult, calls, hist >>
  /\ UNCHANGED accVars

\* the end of the stack loop
RunStacksDone ==
  /\ pc = "stacks"
  /\ todoStacks = {}
  /\ pc' = NextPhase("stacks")
  /\ UNCHANGED << app, ctxDone, run, assetChan, sent, pending, wk, err, todoStacks,
                  todoAlbums, serverAlbums, rmIdx, result, cmdResult, flushLog,
                  calls, hist >>
  /\ UNCHANGED accVars

\* ----------------------------------------------------------- ManageAlbums
\* number of albums of the server list that bear this name
Matching(sl, album) == Cardinality({ i \in DOMAIN sl : sl[i] = album })

LogN(op, k) == flushLog' = flushLog \o [i \in 1..k |-> op]

CountAlbumCalls(album, k) == calls' = [calls EXCEPT !.album[album] = @ + k]

\* Run calls ManageAlbums: nothing to do when updateAlbums is empty, else
\* client.GetAllAlbums, whose failure ends ManageAlbums (Run logs it)
RunManageAlbums ==
  /\ pc = "albums"
  /\ IF ~AlbumsManaged(app)
     THEN /\ pc' = NextPhase("albums")
          /\ UNCHANGED << err, todoAlbums, serverAlbums, flushLog, calls >>
     ELSE IF AlbumKeys(updateAlbums) = {}
     THEN /\ pc' = NextPhase("albums")
          /\ err' = "nil"
          /\ UNCHANGED << todoAlbums, serverAlbums, flushLog, calls >>
     ELSE /\ Log("GetAllAlbums")
          /\ \/ /\ pc' = NextPhase("albums")
                /\ err' = "nil"
                /\ calls' = [calls EXCEPT !.managed = "nolist"]
                /\ UNCHANGED << todoAlbums, serverAlbums >>
             \/ /\ pc' = "albumLoop"
                /\ \E sl \in ServerAlbumLists : serverAlbums' = sl
                /\ todoAlbums' = AlbumKeys(updateAlbums)
                /\ calls' = [calls EXCEPT !.accum = AlbumKeys(updateAlbums),
                                           !.managed = "loop"]
                /\ UNCHANGED err
  /\ UNCHANGED << app, ctxDone, run, assetChan, sent, pending, wk, todoStacks,
                  rmIdx, result, cmdResult, hist >>
  /\ UNCHANGED accVars

\* one turn of the loop of ManageAlbums over updateAlbums: AddAssetToAlbum on
\* every album of the server list that bears the name, CreateAlbum when none
\* does; the first failing call returns from ManageAlbums
RunAlbum ==
  /\ pc = "albumLoop"
  /\ todoAlbums # {}
  /\ \E album \in todoAlbums :
       LET k == Matching(serverAlbums, album)
           op == IF k > 0 THEN "AddAssetToAlbum" ELSE "CreateAlbum"
           m == IF k > 0 THEN k ELSE 1
       IN IF app.DryRun
          THEN /\ todoAlbums' = todoAlbums \ {album}
               /\ UNCHANGED << pc, err, serverAlbums, flushLog, calls >>
          ELSE \/ /\ LogN(op, m)
                  /\ CountAlbumCalls(album, m)
                  /\ todoAlbums' = todoAlbums \ {album}
                  /\ UNCHANGED << pc, err, serverAlbums >>
               \/ \E j \in 1..m :
                    /\ LogN(op, j)
                    /\ calls' = [calls EXCEPT !.album[album] = @ + j,
                                               !.managed = "failed"]
                    /\ todoAlbums' = {}
                    /\ serverAlbums' = << >>
                    /\ err' = "nil"
                    /\ pc' = NextPhase("albums")
  /\ UNCHANGED << app, ctxDone, run, assetChan, sent, pending, wk, todoStacks,
                  rmIdx, result, cmdResult, hist >>
  /\ UNCHANGED accVars

\* the loop of ManageAlbums is over: return nil
RunAlbumsDone ==
  /\ pc = "albumLoop"
  /\ todoAlbums = {}
  /\ err' = "nil"
  /\ serverAlbums' = << >>
  /\ calls' = [calls EXCEPT !.managed = "ok"]
  /\ pc' = NextPhase("albums")
  /\ UNCHANGED << app, ctxDone, run, assetChan, sent, pending, wk, todoStacks,
                  todoAlbums, rmIdx, result, cmdResult, flushLog, hist >>
  /\ UNCHANGED accVars

\* -------------------------------------------------------------- deletions
\* the identifiers Run collects from deleteServerList with All
ServerIDs == RangeOf(deleteServerList)

\* Run, deleteServerList.Len() > 0: DeleteServerAssets sends one DeleteAssets
\* request unless dry-run; Run returns its error
RunDeleteServer ==
  /\ pc = "delServer"
  /\ IF Len(deleteServerList) > 0 /\ ~app.DryRun
     THEN /\ Log("DeleteAssets")
          /\ calls' = [calls EXCEPT !.delReq =
                         [id \in AssetIDs |-> IF id \in ServerIDs THEN @[id] + 1
                                                                  ELSE @[id]]]
          /\ \/ /\ pc' = NextPhase("delServer")
                /\ UNCHANGED result
             \/ /\ pc' = "ret"
                /\ result' = [result EXCEPT ![run] = "err"]
     ELSE /\ pc' = NextPhase("delServer")
          /\ UNCHANGED << result, flushLog, calls >>
  /\ UNCHANGED << app, ctxDone, run, assetChan, sent, pending, wk, err, todoStacks,
                  todoAlbums, serverAlbums, rmIdx, cmdResult, hist >>
  /\ UNCHANGED accVars

\* Run, deleteLocalList.Len() > 0: DeleteLocalAssets starts with a nil error
RunDeleteLocal ==
  /\ pc = "delLocal"
  /\ IF Len(deleteLocalList) > 0
     THEN /\ pc' = "remove"
          /\ rmIdx' = 1
          /\ err' = "nil"
     ELSE /\ pc' = NextPhase("delLocal")
          /\ UNCHANGED << rmIdx, err >>
  /\ UNCHANGED << app, ctxDone, run, assetChan, sent, pending, wk, todoStacks,
                  todoAlbums, serverAlbums, result, cmdResult, flushLog, calls, hist >>
  /\ UNCHANGED accVars

\* List.All: the iteration goes on while the callback returns true
AllGoesOn(ok, i, len) == ok /\ i < len

\* one call of the callback DeleteLocalAssets gives to deleteLocalList.All:
\* a.Remove() unless dry-run, and err == nil is what the callback returns
RunRemove ==
  /\ pc = "remove"
  /\ \E ok \in BOOLEAN :
       /\ app.DryRun => ok
       /\ IF app.DryRun
          THEN UNCHANGED << err, flushLog, calls >>
          ELSE /\ Log("Remove")
               /\ calls' = [calls EXCEPT !.rmTry[deleteLocalList[rmIdx]] = @ + 1]
               /\ err' = IF ok THEN "nil" ELSE "err"
       /\ IF AllGoesOn(ok, rmIdx, Len(deleteLocalList))
          THEN /\ rmIdx' = rmIdx + 1
               /\ UNCHANGED pc
          ELSE /\ rmIdx' = 0
               /\ pc' = NextPhase("delLocal")
  /\ UNCHANGED << app, ctxDone, run, assetChan, sent, pending, wk, todoStacks,
                  todoAlbums, serverAlbums, result, cmdResult, hist >>
  /\ UNCHANGED accVars

\* Run: return err
RunReturn ==
  /\ pc = "return"
  /\ result' = [result EXCEPT ![run] = err]
  /\ pc' = "ret"
  /\ UNCHANGED << app, ctxDone, run, assetChan, sent, pending, wk, err, todoStacks,
                  todoAlbums, serverAlbums, rmIdx, cmdResult, flushLog, calls, hist >>
  /\ UNCHANGED accVars

\* UploadCommand: err = errors.Join(app.Run(ctx, fsys)), then the next file
\* system, or return err
NextFsys ==
  /\ pc = "ret"
  /\ IF run < NumFsys
     THEN /\ run' = run + 1
          /\ pc' = "start"
          /\ flushLog' = << >>
          /\ calls' = [calls EXCEPT !.album = NoAlbumCalls, !.accum = {},
                                     !.managed = "no", !.early = ctxDone]
          /\ UNCHANGED cmdResult
     ELSE /\ pc' = "done"
          /\ cmdResult' = IF result[run] = "nil" THEN "nil" ELSE "err"
          /\ UNCHANGED << run, flushLog, calls >>
  /\ UNCHANGED << app, ctxDone, assetChan, sent, pending, wk, err, todoStacks,
                  todoAlbums, serverAlbums, rmIdx, result, hist >>
  /\ UNCHANGED accVars

\* ---------------------------------------------------------------- workers
Task(s) == wk[s]
SetTask(s, t) == wk' = [wk EXCEPT ![s] = t]
Note(n, h) == hist' = [hist EXCEPT ![n] = h]

\* a.Close() at the return of handleAsset, and the task is over
EndTask(s, h) ==
  /\ SetTask(s, IdleTask)
  /\ Note(Task(s).n, [h EXCEPT !.state = "done", !.closed = @ + 1])

\* the function given to xsync.NewWorker: a descriptor with a.Err is logged
\* and dropped; else handleAsset starts and reads app.mediaCount
WorkerStart(s) ==
  /\ Task(s).pc = "start"
  /\ IF Task(s).a.Err
     THEN /\ SetTask(s, IdleTask)
          /\ Note(Task(s).n, [hist[Task(s).n] EXCEPT !.state = "dropped"])
     ELSE /\ SetTask(s, [Task(s) EXCEPT !.pc = "count", !.tmp = mediaCount])
          /\ Note(Task(s).n, [hist[Task(s).n] EXCEPT !.state = "handling"])
  /\ UNCHANGED << app, ctxDone, assetChan, sent >>
  /\ UNCHANGED cmdVars
  /\ UNCHANGED accVars

\* the albums of the matched server asset, as handleAsset adds them to the
\* local file with a.AddAlbum(LocalAlbum{Name: al.AlbumName})
ServerAlbumsOf(sa) == { LocalAlbum("", n) : n \in sa.Albums }

\* handleAsset: app.mediaCount++ is written back, then the guards, the filter
\* of untitled albums, ShouldUpload and the head of the switch on the advice
WorkerClassify(s) ==
  /\ Task(s).pc = "count"
  /\ mediaCount' = Task(s).tmp + 1
  /\ LET t == Task(s)
         a == [t.a EXCEPT !.Albums = FilterAlbums(app, t.a)]
         adv == ShouldUpload(AssetIndex, a)
         sa == IF adv.ServerAsset = 0 THEN [ID |-> "", Albums |-> {}]
               ELSE AssetIndex[adv.ServerAsset]
         h == [hist[t.n] EXCEPT !.adv = adv.Advice, !.sa = sa.ID]
     IN IF Skipped(app, t.a)
        THEN EndTask(s, hist[t.n])
        ELSE /\ Note(t.n, h)
             /\ CASE adv.Advice = NotOnServer ->
                       SetTask(s, [t EXCEPT !.pc = "upload", !.a = a,
                                            !.adv = adv.Advice])
                  [] adv.Advice = SmallerOnServer ->
                       SetTask(s, [t EXCEPT !.pc = "upload", !.adv = adv.Advice,
                                            !.sa = adv.ServerAsset,
                                            !.a = [a EXCEPT !.Albums =
                                                     @ \cup ServerAlbumsOf(sa)]])
                  [] adv.Advice = SameOnServer ->
                       SetTask(s, [t EXCEPT !.pc = "add", !.a = a,
                                            !.adv = adv.Advice,
                                            !.sa = adv.ServerAsset, !.rid = sa.ID,
                                            !.names = SameAlbumNames(app, a)])
                  [] adv.Advice = BetterOnServer ->
                       SetTask(s, [t EXCEPT !.pc = "add", !.a = a,
                                            !.adv = adv.Advice,
                                            !.sa = adv.ServerAsset, !.rid = sa.ID,
                                            !.names = BetterAlbumNames(app, a)])
  /\ UNCHANGED << app, ctxDone, assetChan, sent, AssetIndex, deleteServerList,
                  deleteLocalList, updateAlbums, stacks, mediaUploaded >>
  /\ UNCHANGED cmdVars

\* the results of client.AssetUpload: an identifier, an error, or the
\* identifier of a duplicate
UploadResults == {"ok", "err", "dup"}

\* the same with client.AssetUpload called whatever DryRun says
WorkerUploadInDryRun(s) ==
  /\ Task(s).pc = "upload"
  /\ LET t == Task(s)
         id == NewIDs[Len(AssetIndex) - Len(ServerAssets) + 1]
     IN \E res \in UploadResults :
          /\ Note(t.n, [hist[t.n] EXCEPT !.upl = res,
                                         !.rid = IF res = "ok" THEN id ELSE ""])
          /\ IF res \in {"err", "dup"}
             THEN /\ SetTask(s, [t EXCEPT !.pc = "add", !.names = {}])
                  /\ UNCHANGED AssetIndex
             ELSE /\ SetTask(s, [t EXCEPT !.pc = "uploaded", !.rid = id,
                                          !.tmp = mediaUploaded])
                  /\ AssetIndex' = AddLocalAsset(AssetIndex, t.a, id)
  /\ UNCHANGED << app, ctxDone, assetChan, sent, deleteServerList, deleteLocalList,
                  updateAlbums, stacks, mediaCount, mediaUploaded >>
  /\ UNCHANGED cmdVars

\* UploadAsset, up to AddLocalAsset: client.AssetUpload unless dry-run; an
\* error or a duplicate returns; else the asset enters the index and
\* app.mediaUploaded is read
WorkerUpload(s) ==
  /\ Task(s).pc = "upload"
  /\ LET t == Task(s)
         id == NewIDs[Len(AssetIndex) - Len(ServerAssets) + 1]
     IN \E res \in (IF app.DryRun THEN {"dry"} ELSE UploadResults) :
          /\ Note(t.n, [hist[t.n] EXCEPT !.upl = res,
                                         !.rid = IF res \in {"ok", "dry"} THEN id ELSE ""])
          /\ IF res \in {"err", "dup"}
             THEN /\ SetTask(s, [t EXCEPT !.pc = "add", !.names = {}])
                  /\ UNCHANGED AssetIndex
             ELSE /\ SetTask(s, [t EXCEPT !.pc = "uploaded", !.rid = id,
                                          !.tmp = mediaUploaded])
                  /\ AssetIndex' = AddLocalAsset(AssetIndex, t.a, id)
  /\ UNCHANGED << app, ctxDone, assetChan, sent, deleteServerList, deleteLocalList,
                  updateAlbums, stacks, mediaCount, mediaUploaded >>
  /\ UNCHANGED cmdVars

\* UploadAsset, after AddLocalAsset: app.mediaUploaded += 1 is written back,
\* the asset is given to the stack builder, the album names are computed
WorkerUploaded(s) ==
  /\ Task(s).pc = "uploaded"
  /\ LET t == Task(s) IN
       /\ mediaUploaded' = t.tmp + 1
       /\ stacks' = IF app.CreateStacks
                    THEN Append(stacks, [ID |-> t.rid, Name |-> t.a.Name,
                                         Date |-> t.a.Date])
                    ELSE stacks
       /\ SetTask(s, [t EXCEPT !.pc = "add", !.names = UploadAlbumNames(app, t.a)])
       /\ Note(t.n, [hist[t.n] EXCEPT !.stacked = app.CreateStacks])
  /\ UNCHANGED << app, ctxDone, assetChan, sent, AssetIndex, deleteServerList,
                  deleteLocalList, updateAlbums, mediaCount >>
  /\ UNCHANGED cmdVars

\* one call of AddToAlbum, under updateAlbumsLo (ManageAlbums holds the lock
\* from its first to its last statement)
WorkerAddToAlbum(s) ==
  /\ Task(s).pc = "add"
  /\ Task(s).names # {}
  /\ pc # "albumLoop"
  /\ LET t == Task(s)
         name == CHOOSE n \in t.names : TRUE
     IN /\ updateAlbums' = AddToAlbum(updateAlbums, t.rid, name)
        /\ SetTask(s, [t EXCEPT !.names = @ \ {name}])
        /\ Note(t.n, [hist[t.n] EXCEPT !.adds = @ \cup {<< name, t.rid >>}])
  /\ UNCHANGED << app, ctxDone, assetChan, sent, AssetIndex, deleteServerList,
                  deleteLocalList, stacks, mediaCount, mediaUploaded >>
  /\ UNCHANGED cmdVars

\* the same without the test of JustUploaded
PushesLocalAnyMatch(t) ==
  /\ app.Delete
  /\ t.adv \in {NotOnServer, SmallerOnServer, SameOnServer}

\* handleAsset, the end of the switch on the advice: whether the local file
\* and the matched server asset are pushed to the deletion lists
PushesLocal(t) ==
  /\ app.Delete
  /\ \/ t.adv \in {NotOnServer, SmallerOnServer}
     \/ t.adv = SameOnServer /\ ~AssetIndex[t.sa].JustUploaded

PushesServer(t) == t.adv = SmallerOnServer

\* handleAsset, after UploadAsset or the AddToAlbum calls: the pushes to
\* deleteServerList and deleteLocalList, then the deferred a.Close()
WorkerPush(s) ==
  /\ Task(s).pc = "add"
  /\ Task(s).names = {}
  /\ LET t == Task(s) IN
       /\ deleteServerList' = IF PushesServer(t)
                              THEN Append(deleteServerList, AssetIndex[t.sa].ID)
                              ELSE deleteServerList
       /\ deleteLocalList' = IF PushesLocal(t)
                             THEN Append(deleteLocalList, t.n)
                             ELSE deleteLocalList
       /\ EndTask(s, [hist[t.n] EXCEPT
                        !.local = PushesLocal(t),
                        !.server = IF PushesServer(t) THEN AssetIndex[t.sa].ID ELSE ""])
  /\ UNCHANGED << app, ctxDone, assetChan, sent, AssetIndex, updateAlbums, stacks,
                  mediaCount, mediaUploaded >>
  /\ UNCHANGED cmdVars

\* ------------------------------------------------------------------- Next
Worker(s) ==
  \/ WorkerStart(s)
  \/ WorkerClassify(s)
  \/ WorkerUpload(s)
  \/ WorkerUploaded(s)
  \/ WorkerAddToAlbum(s)
  \/ WorkerPush(s)

Next ==
  \/ Cancel
  \/ BrowseClose
  \/ RunStart
  \/ RunCtxDone
  \/ RunReceive
  \/ RunChanClosed
  \/ RunEnqueue
  \/ RunWait
  \/ RunStack
  \/ RunStacksDone
  \/ RunManageAlbums
  \/ RunAlbum
  \/ RunAlbumsDone
  \/ RunDeleteServer
  \/ RunDeleteLocal
  \/ RunRemove
  \/ RunReturn
  \/ NextFsys
  \/ \E s \in Slots : Worker(s)

Spec == Init /\ [][Next]_vars

\* ------------------------------------- the command with -create-albums=false
\* folder imports, not in dry-run, with the flag -create-albums=false
NoCreateAlbumsConfigs ==
  { [c EXCEPT !.CreateAlbums = FALSE] :
      c \in { cc \in Configs : ~cc.GooglePhotos /\ ~cc.DryRun } }

NoCreateAlbumsInit ==
  /\ app \in NoCreateAlbumsConfigs
  /\ Start

NoCreateAlbumsSpec == NoCreateAlbumsInit /\ [][Next]_vars

\* ------------------------------------------- the command left to complete
\* the steps of UploadCommand and Run, but for the receive, which waits for
\* the enumerator
Dispatcher ==
  \/ RunStart
  \/ RunChanClosed
  \/ RunEnqueue
  \/ RunWait
  \/ RunStack
  \/ RunStacksDone
  \/ RunManageAlbums
  \/ RunAlbum
  \/ RunAlbumsDone
  \/ RunDeleteServer
  \/ RunDeleteLocal
  \/ RunRemove
  \/ RunReturn
  \/ NextFsys

\* folder imports with -album, with and without -dry-run, Delete set
LiveConfigs ==
  { c \in Configs : ~c.GooglePhotos /\ c.Delete /\ c.ImportIntoAlbum = "imp" }

LiveInit ==
  /\ app \in LiveConfigs
  /\ Start

\* the context is never cancelled
LiveNext ==
  \/ BrowseClose
  \/ RunReceive
  \/ Dispatcher
  \/ \E s \in Slots : Worker(s)

\* the enumerator closes its channel in the end, the goroutine of Run and the
\* goroutines of the pools are scheduled as long as they can take a step
LiveSpec ==
  /\ LiveInit
  /\ [][LiveNext]_vars
  /\ WF_vars(BrowseClose)
  /\ WF_vars(Dispatcher)
  /\ \A s \in Slots : WF_vars(Worker(s))

\* ------------------------------------------- the advice engine on its own
\* remote assets bearing one name in the index
MaxCandidates == 2
\* capture times of the local files, in minutes: 0..MaxDate
MaxDate == 12

Sizes == {1, 2}
RemoteDates == {1, 6}
RemoteIDs == << "r1", "r2", "r3", "r4" >>

\* an asset of the server listing: its device identifier is the one this
\* program derives, or the one of another device
RemoteAsset(id, n, s, t, foreign) ==
  [ID |-> id,
   DeviceAssetID |-> IF foreign THEN << "other", id >> ELSE << n, s, t >>,
   Name |-> n, Size |-> s, Date |-> t, Albums |-> {}, JustUploaded |-> FALSE]

RemoteChoices ==
  [Name : {"a.jpg", "b.jpg"}, Size : Sizes, Date : RemoteDates, Foreign : BOOLEAN]

\* the indexes NewUpCmd may build: up to MaxCandidates assets
AdviceIndexes ==
  UNION { { [i \in 1..k |-> RemoteAsset(RemoteIDs[i], c[i].Name, c[i].Size,
                                         c[i].Date, c[i].Foreign)] :
            c \in [1..k -> RemoteChoices] } : k \in 0..MaxCandidates }

AdviceFiles ==
  { LocalFile("a.jpg", "d", s, t, {}, FALSE, TRUE) : s \in Sizes, t \in 0..MaxDate }

\* a worker holds one descriptor, handleAsset is about to start on it
AdviceInit ==
  /\ app \in { c \in Configs : c.DryRun /\ ~c.Delete /\ ~c.GooglePhotos
                                /\ c.ImportIntoAlbum = "" }
  /\ ctxDone = FALSE
  /\ run = 1
  /\ pc = "loop"
  /\ assetChan = "open"
  /\ sent = 1
  /\ pending = << >>
  /\ \E f \in AdviceFiles :
       /\ wk = [s \in Slots |->
                  IF s = << 1, 1 >>
                  THEN [IdleTask EXCEPT !.pc = "start", !.n = 1, !.a = f]
                  ELSE IdleTask]
       /\ hist = [n \in Descriptors |->
                    IF n = 1
                    THEN [NoHist EXCEPT !.run = 1, !.a = f, !.state = "queued"]
                    ELSE NoHist]
  /\ AssetIndex \in AdviceIndexes
  /\ deleteServerList = << >>
  /\ deleteLocalList = << >>
  /\ updateAlbums = [n \in AlbumNames |-> {}]
  /\ stacks = << >>
  /\ mediaCount = 0
  /\ mediaUploaded = 0
  /\ err = "nil"
  /\ todoStacks = {}
  /\ todoAlbums = {}
  /\ serverAlbums = << >>
  /\ rmIdx = 0
  /\ result = [r \in Runs |-> "none"]
  /\ cmdResult = "none"
  /\ flushLog = << >>
  /\ calls = [delReq |-> [id \in AssetIDs |-> 0],
              rmTry |-> [n \in Descriptors |-> 0],
              album |-> NoAlbumCalls, accum |-> {}, managed |-> "no",
              early |-> FALSE]

AdviceNext ==
  \/ \E s \in Slots : WorkerStart(s)
  \/ \E s \in Slots : WorkerClassify(s)

AdviceSpec == AdviceInit /\ [][AdviceNext]_vars

\* ----------------------------------------------------------------- claims
\* the descriptors the current Run has taken from its enumerator
Dispatched == { n \in Descriptors : hist[n].run = run /\ hist[n].state # "none" }
Completed == { n \in Dispatched : hist[n].state \in {"done", "dropped"} }

\* the asset of the index that bears this identifier
AssetOfID(id) == AssetIndex[CHOOSE i \in DOMAIN AssetIndex : AssetIndex[i].ID = id]

\* every identifier accumulated in updateAlbums
AlbumTargets == UNION { updateAlbums[n] : n \in AlbumNames }

\* C1: a Run starts no flush operation (UpdateAssets, GetAllAlbums,
\* AddAssetToAlbum, CreateAlbum, DeleteAssets, Remove) before its input channel
\* is closed and drained and every descriptor it dispatched has been completed
\* by its worker.
C1_FlushAfterDrain ==
  flushLog # << >> =>
    /\ assetChan = "closed"
    /\ pending = << >>
    /\ Dispatched = Completed
    /\ \A w \in Workers : wk[<< run, w >>].pc = "idle"

C1_Witness ==
  /\ flushLog # << >>
  /\ Cardinality(Completed) = 2
  /\ \E n \in Completed : hist[n].upl = "ok"

\* C2: a file whose upload failed adds nothing to the deletion, album or stack
\* state: once handleAsset has returned, neither the file nor the matched
\* asset was pushed to a deletion list, no identifier was added to
\* updateAlbums and no entry was given to the stack builder.
C2_FailedUploadAddsNothing ==
  \A n \in Descriptors :
    hist[n].state = "done" /\ hist[n].upl = "err" =>
      /\ ~hist[n].local
      /\ hist[n].server = ""
      /\ hist[n].adds = {}
      /\ ~hist[n].stacked

\* no upload has failed so far
NoUploadFailed == \A n \in Descriptors : hist[n].upl # "err"

\* C3: no asset of deleteServerList is an identifier accumulated in
\* updateAlbums (stated for the runs in which no upload fails, so that the
\* asset is queued by a SmallerOnServer decision whose upload went through).
C3_DeletedNotInAlbums ==
  NoUploadFailed => RangeOf(deleteServerList) \cap AlbumTargets = {}

\* C4: when ManageAlbums has run its loop (not in dry-run), every album name
\* that was accumulated got its append-or-create call, also when the call of
\* another album failed.
C4_EveryAlbumCalled ==
  calls.managed \in {"ok", "failed"} /\ ~app.DryRun =>
    \A album \in calls.accum : calls.album[album] >= 1

\* C5: when DeleteLocalAssets has returned (not in dry-run, context not
\* cancelled), Remove was attempted on every file of deleteLocalList.
C5_EveryFileRemoved ==
  pc = "return" /\ ~app.DryRun /\ ~ctxDone =>
    \A n \in RangeOf(deleteLocalList) : calls.rmTry[n] >= 1

\* C6: when a file classified SmallerOnServer was uploaded, the new identifier
\* is accumulated in updateAlbums under the name of every album of the
\* replaced asset, in every configuration in which Run manages albums.
C6_AlbumsOfReplacedKept ==
  \A n \in Descriptors :
    /\ hist[n].state = "done"
    /\ hist[n].adv = SmallerOnServer
    /\ hist[n].upl = "ok"
    /\ AlbumsManaged(app)
    => \A album \in AssetOfID(hist[n].sa).Albums :
         /\ << album, hist[n].rid >> \in hist[n].adds
         /\ hist[n].rid \in updateAlbums[album]

\* the flush phase an operation belongs to
PhaseOf(op) ==
  CASE op = "UpdateAssets" -> 1
    [] op \in {"GetAllAlbums", "AddAssetToAlbum", "CreateAlbum"} -> 2
    [] op = "DeleteAssets" -> 3
    [] op = "Remove" -> 4

\* C7: the operations a Run starts are in the order stack updates, album
\* calls, the remote DeleteAssets request, local removals: no stack or album
\* call follows a deletion, and at most one DeleteAssets request is sent.
C7_FlushOrder ==
  /\ \A i, j \in DOMAIN flushLog :
       i < j => PhaseOf(flushLog[i]) <= PhaseOf(flushLog[j])
  /\ Cardinality({ i \in DOMAIN flushLog : flushLog[i] = "DeleteAssets" }) <= 1

C7_Witness ==
  /\ pc = "return"
  /\ { PhaseOf(flushLog[i]) : i \in DOMAIN flushLog } = {1, 2, 3, 4}

\* every Run that has returned returned nil
EarlierRunsNil == \A r \in Runs : result[r] \in {"none", "nil"}

\* C8: each deletion set is drained exactly once over the Runs of the command
\* (stated for the commands in which no upload fails and every Run returns
\* nil): no asset is sent in two DeleteAssets requests, no file has Remove
\* attempted twice, and when the command ends (not in dry-run, context not
\* cancelled) every pushed asset and file was drained.
C8_DrainedOnce ==
  NoUploadFailed /\ EarlierRunsNil =>
    /\ \A id \in AssetIDs : calls.delReq[id] <= 1
    /\ \A n \in Descriptors : calls.rmTry[n] <= 1
    /\ pc = "done" /\ ~app.DryRun /\ ~ctxDone =>
         /\ \A id \in RangeOf(deleteServerList) : calls.delReq[id] = 1
         /\ \A n \in RangeOf(deleteLocalList) : calls.rmTry[n] = 1

\* C9: when ManageAlbums has visited every accumulated album without a
\* failure (not in dry-run), it has issued exactly one call for each of them,
\* whatever the album list of the server.
C9_OneCallPerAlbum ==
  calls.managed = "ok" /\ ~app.DryRun =>
    \A album \in calls.accum : calls.album[album] = 1

\* C10: a Run whose context was cancelled before its dispatcher loop ended
\* starts no flush operation and returns the error of the context (or the
\* error of its explorer).
C10_CancelAborts ==
  calls.early =>
    /\ flushLog = << >>
    /\ result[run] \in {"none", "ctx", "err"}

\* C11: Run returns to its caller only after every task its pool was given
\* has completed: once a Run has returned, whether its input was exhausted or
\* cut short by cancellation, no goroutine of its pool still runs a task.
C11_ReturnAfterTasks ==
  \A r \in Runs :
    result[r] # "none" => \A w \in Workers : wk[<< r, w >>].pc = "idle"

\* the assets of the index that bear the name of descriptor n
Candidates(n) == { i \in DOMAIN AssetIndex : AssetIndex[i].Name = hist[n].a.Name }

\* no asset of the index has the device identifier of descriptor n
NoIdentifierMatch(n) ==
  \A i \in DOMAIN AssetIndex : AssetIndex[i].DeviceAssetID # DeviceAssetID(hist[n].a)

Abs(x) == IF x < 0 THEN -x ELSE x

\* C12: for a classified file with no identifier match and one remote
\* candidate of its name, the advice is NotOnServer when the capture times
\* differ by five minutes or more in either direction, and else SameOnServer,
\* SmallerOnServer or BetterOnServer as the local size is equal to, greater
\* than or smaller than the remote size.
C12_Tolerance ==
  \A n \in Descriptors :
    hist[n].adv # "" /\ NoIdentifierMatch(n) /\ Cardinality(Candidates(n)) = 1 =>
      LET la == hist[n].a
          sa == AssetIndex[CHOOSE i \in Candidates(n) : TRUE]
      IN hist[n].adv =
           IF Abs(la.Date - sa.Date) >= FiveMinutes THEN NotOnServer
           ELSE IF la.Size = sa.Size THEN SameOnServer
           ELSE IF la.Size > sa.Size THEN SmallerOnServer
           ELSE BetterOnServer

\* the index after handleAsset has run in dry-run on the descriptors 1..k one
\* after the other (one worker): every file classified NotOnServer or
\* SmallerOnServer enters the index
RECURSIVE SeqIndex(_)
SeqIndex(k) ==
  IF k = 0 THEN ServerAssets
  ELSE LET ai == SeqIndex(k - 1)
           a == hist[k].a
       IN IF a.Err \/ Skipped(app, a) THEN ai
          ELSE IF ShouldUpload(ai, a).Advice \in {NotOnServer, SmallerOnServer}
          THEN AddLocalAsset(ai, a, NewIDs[Len(ai) - Len(ServerAssets) + 1])
          ELSE ai

\* the advice descriptor n gets in that sequential run
SeqAdvice(n) == ShouldUpload(SeqIndex(n - 1), hist[n].a).Advice

\* C13: in dry-run the advice of every file is the same in any two runs of
\* the engine over the same corpus and catalog: whatever the interleaving of
\* the workers, each file classified by the first Run of the command gets the
\* advice it gets in the run that handles the same files one after the other.
C13_DryRunDeterministic ==
  app.DryRun =>
    \A n \in Descriptors :
      hist[n].run = 1 /\ hist[n].adv # "" => hist[n].adv = SeqAdvice(n)

\* C14: with DryRun set nothing changes the source or the destination:
\* AssetUpload is called for no file, the only remote call of the flush is
\* GetAllAlbums (no UpdateAssets, AddAssetToAlbum, CreateAlbum, DeleteAssets)
\* and Remove is attempted on no file.
C14_DryRunTouchesNothing ==
  app.DryRun =>
    /\ \A n \in Descriptors : hist[n].upl \in {"", "dry"}
    /\ \A i \in DOMAIN flushLog : flushLog[i] = "GetAllAlbums"
    /\ \A id \in AssetIDs : calls.delReq[id] = 0
    /\ \A n \in Descriptors : calls.rmTry[n] = 0
    /\ \A album \in AlbumNames : calls.album[album] = 0

C14_Witness ==
  /\ app.DryRun
  /\ pc = "return"
  /\ \E n \in Descriptors : hist[n].upl = "dry"
  /\ Stacks(stacks) # {}
  /\ flushLog = << "GetAllAlbums" >>
  /\ calls.managed = "ok"
  /\ deleteServerList # << >>
  /\ deleteLocalList # << >>

\* the identifiers the AddToAlbum calls made so far were given for this album
AddedUnder(album) ==
  { p[2] : p \in { q \in UNION { hist[n].adds : n \in Descriptors } : q[1] = album } }

\* C15: whatever the interleaving of the AddToAlbum calls of the workers,
\* updateAlbums maps every album name to exactly the identifiers that were
\* added under this name: none is lost, none appears from elsewhere.
C15_NoLostAlbumUpdate ==
  \A album \in AlbumNames : updateAlbums[album] = AddedUnder(album)

\* two tasks of one pool are in handleAsset at once and both have added
\* their identifier to the same album
C15_Witness ==
  \E r \in Runs, album \in AlbumNames :
    /\ wk[<< r, 1 >>].pc = "add" /\ wk[<< r, 1 >>].names = {}
    /\ wk[<< r, 2 >>].pc = "add" /\ wk[<< r, 2 >>].names = {}
    /\ wk[<< r, 1 >>].rid # wk[<< r, 2 >>].rid
    /\ {wk[<< r, 1 >>].rid, wk[<< r, 2 >>].rid} \subseteq updateAlbums[album]

\* the identifiers of the assets the server listed at start: the other
\* identifiers of the index are those of the assets created in this run
ListedIDs == { ServerAssets[i].ID : i \in DOMAIN ServerAssets }

\* C16: a file classified SameOnServer is pushed to deleteLocalList only when
\* the matched asset was listed by the server at start; when the matched
\* asset was created earlier in this run the file is not pushed, even with
\* Delete set.
C16_JustUploadedKeepsLocal ==
  \A n \in Descriptors :
    hist[n].state = "done" /\ hist[n].adv = SameOnServer =>
      (hist[n].local => hist[n].sa \in ListedIDs)

C16_Witness ==
  /\ app.Delete
  /\ \E n \in Descriptors :
       /\ hist[n].state = "done" /\ hist[n].adv = SameOnServer
       /\ hist[n].sa \notin ListedIDs
       /\ AssetOfID(hist[n].sa).JustUploaded
       /\ ~hist[n].local
  /\ \E n \in Descriptors :
       /\ hist[n].state = "done" /\ hist[n].adv = NotOnServer /\ hist[n].local

\* the candidates of descriptor n whose capture time compareDate finds equal
\* to the one of the file (within the tolerance)
TimeEqual(n) ==
  { i \in Candidates(n) : compareDate(hist[n].a.Date, AssetIndex[i].Date) = 0 }

\* the advice the sizes give for one candidate
SizeAdvice(la, sa) ==
  IF la.Size = sa.Size THEN SameOnServer
  ELSE IF la.Size > sa.Size THEN SmallerOnServer
  ELSE BetterOnServer

C18_ClosedOnce ==
  \A n \in Descriptors :
    hist[n].state \in {"done", "dropped"} => hist[n].closed = 1

\* C19: when a Run reaches its last statement and no worker runs a task,
\* mediaCount is the number of descriptors that were passed to handleAsset
\* and mediaUploaded the number of assets the uploads added to the index,
\* whatever the interleaving of the tasks was.
C19_CountersExact ==
  pc = "return" /\ (\A s \in Slots : wk[s].pc = "idle") =>
    /\ mediaCount = Cardinality({ n \in Descriptors : hist[n].state = "done" })
    /\ mediaUploaded = Len(AssetIndex) - Len(ServerAssets)

\* C20: a failed stack update or a failed album call never becomes the result
\* of Run: when the context is not cancelled and Run reaches its last
\* statement with a non-nil err, the last operation it started was a Remove
\* (the one that failed).  A failed DeleteAssets request returns before this
\* statement.
C20_OnlyDeletionErrors ==
  pc = "return" /\ ~ctxDone /\ err = "err" =>
    flushLog # << >> /\ flushLog[Len(flushLog)] = "Remove"

\* C21: when UploadCommand has returned and the Run of one of its file
\* systems returned an error, whichever its position in the list, the result
\* of UploadCommand is not nil.
C21_EveryFailedRunReported ==
  pc = "done" /\ (\E r \in Runs : result[r] \in {"err", "ctx"}) =>
    cmdResult # "nil"

\* every descriptor the Run of file system r enqueued went through its worker
\* task once: the task is over, and handleAsset closed the descriptor once
ProcessedOnce(r) ==
  \A n \in Descriptors :
    hist[n].run = r =>
      /\ hist[n].state \in {"done", "dropped"}
      /\ hist[n].state = "done" => hist[n].closed = 1

\* C22: when the enumerator closes its channel after finitely many
\* descriptors, every call returns and the dispatcher and the workers are
\* scheduled fairly, the Run of every file system eventually returns, and
\* every descriptor it enqueued has then been processed once.
C22_RunTerminates ==
  \A r \in Runs : <>(result[r] # "none" /\ ProcessedOnce(r))

C22_Witness ==
  /\ pc = "done"
  /\ \A r \in Runs : result[r] = "nil" /\ ProcessedOnce(r)
  /\ \A n \in Descriptors : hist[n].state = "done" /\ hist[n].upl = "ok"
  /\ \E n \in Descriptors : hist[n].run = 1
  /\ \E n \in Descriptors : hist[n].run = 2

====
